---------------------------- MODULE Spec2Model ----------------------------
(***************************************************************************)
(* Expense-Tracker: the budget allocator of src/app.py as a state machine. *)
(*                                                                         *)
(* Money is an integer number of thousandths of the currency unit (1 cent  *)
(* = 10), so that amounts with more than two decimals can be submitted and *)
(* Python's round(x, 2) is a real conversion.  In Spec the amounts are far  *)
(* below 2^33, where a double resolves millionths, and floating point is   *)
(* modelled by exact decimal arithmetic.  The submitted amounts are even   *)
(* numbers of thousandths, so that no result to be rounded is an exact     *)
(* decimal tie (where the double nearest the result would decide);         *)
(* Round2 sends a tie to the even cent.  LargeSpec, further down, models   *)
(* the doubles themselves for incomes of the order of 10^15.               *)
(*                                                                         *)
(* A percentage is a record [w, f]: w whole percent plus f units of 1e-7   *)
(* percent, so that sums on either side of the 1e-6 tolerance of           *)
(* save_split can be submitted.                                            *)
(***************************************************************************)
EXTENDS Integers, Sequences, FiniteSets, TLC

(***************************************************************************)
(* Bounds of the model.                                                    *)
(***************************************************************************)
\* Requests and clock moves in one behaviour.
MaxSteps == 4

(***************************************************************************)
(* Submitted form / JSON values.  A field is missing, unparsable by        *)
(* float(), or a number.                                                   *)
(***************************************************************************)
Num(v) == [k |-> "num", v |-> v]
Bad == [k |-> "bad", v |-> 0]
Missing == [k |-> "missing", v |-> 0]

\* Amounts (thousandths) a client submits as monthlyIncome: unparsable,
\* -100.00, 0.016 and 10000.00.
IncomeInputs == {Bad, Num(-100000), Num(16), Num(10000000)}

\* What a client submits to /expenses/add: amount (unparsable, 0, -5.00,
\* 0.004, 250.00, 6000.00) and expense_type ("" stands for a missing field).
ExpenseInputs ==
    {[amount |-> Bad, type |-> "need"], [amount |-> Num(0), type |-> "need"],
     [amount |-> Num(-5000), type |-> "other"], [amount |-> Num(4), type |-> "need"],
     [amount |-> Num(4), type |-> ""], [amount |-> Num(250000), type |-> "need"],
     [amount |-> Num(250000), type |-> "other"], [amount |-> Num(6000000), type |-> "need"],
     [amount |-> Num(6000000), type |-> ""]}

\* Units of 1e-7 percent in one percent.
PctScale == 10^7
Pct(w, f) == [w |-> w, f |-> f]
PctBad == [k |-> "bad", v |-> Pct(0, 0)]
PctMissing == [k |-> "missing", v |-> Pct(0, 0)]
\* needPercent, wantsPercent, savingsPercent triples a client submits to
\* /save_split: sums of 100, 110, 100.0000012, 100.0000016 and 99.9999988,
\* an unparsable field, and no fields at all.
SplitInputs ==
    {<<Num(Pct(60, 0)), Num(Pct(20, 0)), Num(Pct(20, 0))>>,
     <<Num(Pct(50, 0)), Num(Pct(30, 0)), Num(Pct(30, 0))>>,
     <<Num(Pct(50, 12)), Num(Pct(30, 0)), Num(Pct(20, 0))>>,
     <<Num(Pct(50, 16)), Num(Pct(30, 0)), Num(Pct(20, 0))>>,
     <<Num(Pct(50, -12)), Num(Pct(30, 0)), Num(Pct(20, 0))>>,
     <<PctBad, Num(Pct(30, 0)), Num(Pct(20, 0))>>,
     <<PctMissing, PctMissing, PctMissing>>}

\* What a client submits to /bills/add: title present?, amount, due_date
\* (year 0: none).  Amounts 300.00 and 8000.00, due 2026-11-05.
BillInputs ==
    {[title |-> TRUE, amount |-> Num(300000), due |-> [year |-> 2026, month |-> 11, day |-> 5]],
     [title |-> TRUE, amount |-> Num(8000000), due |-> [year |-> 2026, month |-> 11, day |-> 5]],
     [title |-> FALSE, amount |-> Num(300000), due |-> [year |-> 2026, month |-> 11, day |-> 5]],
     [title |-> TRUE, amount |-> Num(0), due |-> [year |-> 2026, month |-> 11, day |-> 5]],
     [title |-> TRUE, amount |-> Num(300000), due |-> [year |-> 0, month |-> 0, day |-> 0]]}

\* What a client submits to /savings/add_goal: goal_name present?, target_amount.
GoalInputs ==
    {[name |-> TRUE, target |-> Num(500000)], [name |-> FALSE, target |-> Num(500000)],
     [name |-> TRUE, target |-> Num(0)]}

\* Amounts a client submits to /savings/deposit/<id>: 100.00, -50.00, 0.004
\* and 3000.00.
DepositInputs == {Num(100000), Num(-50000), Num(4), Num(3000000)}

\* Logged-in users (session['user_id']).
Users == {1, 2}

\* The user whose bills and goals the requests of either user are about.
Owner == 1

\* Months by which the clock moves between two requests.
MonthJumps == {1, 12}

(***************************************************************************)
(* Arithmetic.                                                             *)
(***************************************************************************)
Max(a, b) == IF a >= b THEN a ELSE b
Abs(a) == IF a < 0 THEN -a ELSE a

\* Python round(x, 2) of the exact quantity x = m + n/d thousandths (d > 0):
\* the nearest multiple of 10, a tie going to the even cent.
Round2(m, n, d) ==
    LET M == m + (n \div d)
        rem == n % d
        q == M \div 10
        r == M % 10
        up == \/ r > 5
              \/ r = 5 /\ rem > 0
              \/ r = 5 /\ rem = 0 /\ q % 2 = 1
    IN  10 * (IF up THEN q + 1 ELSE q)

\* round(income * share, 2) for a share of whole percent pct (0.50, 0.30, 0.20).
Share(income, pct) == Round2(0, income * pct, 100)


\* round(income * (p / 100.0), 2) for a percentage p = w + f * 1e-7.
PctShare(income, p) ==
    LET A == income * p.w
    IN  Round2(A \div 100, (A % 100) * PctScale + income * p.f, 100 * PctScale)

(***************************************************************************)
(* State.                                                                  *)
(***************************************************************************)
VARIABLES
    monthly_income,      \* app.py:41
    user_portfolio,      \* app.py:34, [needs, wants, savings]
    expenses,            \* app.py:28, sequence of [id, amount, type]
    expense_id_counter,  \* app.py:31
    monthly_remainder,   \* app.py:53, last_month 0 stands for None
    now,                 \* datetime.now(): [year, month, day]
    bills_table,         \* db.py:78-92, sequence of [id, user_id, amount, due_date, status]
    next_bill_id,        \* the AUTOINCREMENT of bills.id
    goals_table,         \* db.py:53-63, sequence of [id, user_id, target, progress]
    next_goal_id,        \* the AUTOINCREMENT of savings_goals.id
    bill_reminders,      \* app.py:61, daily_enabled "unset" while the key is absent
    calc_at,             \* history: the clock at the previous calculate_monthly_remainder
    last,                \* history: the last request and what it submitted
    applied,             \* history: rollovers applied in the calendar month of now
    custom,              \* history: a /save_split request has been carried out
    split,               \* history: the percentages of the split last applied
    debts_table,         \* db.py:165-181, sequence of [id, user_id, principal_amount,
                         \*   outstanding_amount, interest_rate, status]
    next_debt_id,        \* the AUTOINCREMENT of debts.id
    debt_payments,       \* db.py:184-199, sequence of payment records
    prepayment,          \* a call of calculate_prepayment_savings: arguments and result
    in_flight,           \* the pay_bill requests under way, one per server thread
    deducted,            \* history: ids of the bills whose amount was taken from needs
    steps                \* history: requests and clock moves so far

vars == <<monthly_income, user_portfolio, expenses, expense_id_counter,
          monthly_remainder, now, bills_table, next_bill_id, goals_table,
          next_goal_id, bill_reminders, calc_at, last, applied, custom, split,
          debts_table, next_debt_id, debt_payments, prepayment, in_flight, deducted,
          steps>>

\* The variables of the ledger store and the reminder tracker.
store == <<bills_table, next_bill_id, goals_table, next_goal_id, bill_reminders>>

\* The variables of the debt tables and the prepayment calculator.
debt_store == <<debts_table, next_debt_id, debt_payments, prepayment>>

Buckets(n, w, s) == [needs |-> n, wants |-> w, savings |-> s]

\* The record of a request: the route, whether it was carried out, and what
\* was submitted (fields a route does not read hold the No... values).
Req(op, ok, amt, typ, id, pct) ==
    [op |-> op, ok |-> ok, amt |-> amt, typ |-> typ, id |-> id, pct |-> pct,
     pre |-> Buckets(0, 0, 0), again |-> FALSE, user |-> 0, notice |-> FALSE,
     flash |-> ""]
NoPct == <<PctMissing, PctMissing, PctMissing>>
Plain(op, ok) == Req(op, ok, Missing, "", 0, NoPct)
\* A request of user u about the existing row id of a table, submitting amt
\* (of a request about a row that is not there, Plain keeps the route).
ReqBy(u, op, ok, amt, id) == [Req(op, ok, amt, "", id, NoPct) EXCEPT !.user = u]
\* The request with the message it flashes.
Flash(req, message) == [req EXCEPT !.flash = message]

Date(y, m, d) == [year |-> y, month |-> m, day |-> d]
\* No date: None, or a missing due_date field.
NoDate == Date(0, 0, 0)
Start == Date(2026, 11, 1)

\* The threads of the server (app.run serves each request in a thread of
\* its own) and what a thread holds of a pay_bill request: where it is in
\* the handler and the bill it fetched.
Threads == {1, 2}
Idle == [pc |-> "idle", bill_id |-> 0, amount |-> 0]

\* No call of calculate_prepayment_savings has been made.
NoCall == [principal |-> 0, rate |-> 0, tenure_months |-> 0, prepayment_amount |-> 0,
           returned |-> <<>>]

\* The default split: 50% needs, 30% wants, 20% savings.
DefaultPercentages == <<Pct(50, 0), Pct(30, 0), Pct(20, 0)>>

\* One more request or clock move, while the behaviour may go on.
Step == steps < MaxSteps /\ steps' = steps + 1

Init ==
    /\ monthly_income = 0
    /\ user_portfolio = Buckets(0, 0, 0)
    /\ expenses = <<>>
    /\ expense_id_counter = 1
    /\ monthly_remainder = [needs |-> 0, wants |-> 0, savings |-> 0, last_month |-> 0]
    /\ now = Start
    /\ bills_table = <<>>
    /\ next_bill_id = 1
    /\ goals_table = <<>>
    /\ next_goal_id = 1
    /\ bill_reminders = [last_reminder_date |-> NoDate, reminder_sent |-> FALSE,
                         daily_enabled |-> "unset"]
    /\ calc_at = NoDate
    /\ last = Plain("init", TRUE)
    /\ applied = 0
    /\ custom = FALSE
    /\ split = DefaultPercentages
    /\ debts_table = <<>>
    /\ next_debt_id = 1
    /\ debt_payments = <<>>
    /\ prepayment = NoCall
    /\ in_flight = [t \in Threads |-> Idle]
    /\ deducted = {}
    /\ steps = 0


(***************************************************************************)
(* float(request.form.get(name, default)): the number, the default for a   *)
(* missing field; an unparsable field raises.                              *)
(***************************************************************************)
Raises(x) == x.k = "bad"
Float(x, default) == IF x.k = "missing" THEN default ELSE x.v

(***************************************************************************)
(* POST /set_income, app.py:313-334.                                       *)
(***************************************************************************)
SetIncomeValue(x) == IF Raises(x) THEN 0 ELSE Float(x, 0)

\* Mutant: the wants and savings shares swapped.
DefaultSplitSwapped(income) ==
    Buckets(Share(income, 50), Share(income, 20), Share(income, 30))

DefaultSplit(income) ==
    Buckets(Share(income, 50), Share(income, 30), Share(income, 20))

SetIncome(x) ==
    /\ Step
    /\ monthly_income' = SetIncomeValue(x)
    /\ user_portfolio' = DefaultSplit(monthly_income')
    /\ split' = DefaultPercentages
    /\ last' = Req("set_income", TRUE, x, "", 0, NoPct)
    /\ UNCHANGED <<expenses, expense_id_counter, monthly_remainder, now,
                   store, calc_at, applied, custom, debt_store, in_flight, deducted>>

(***************************************************************************)
(* POST /save_split, app.py:337-372.                                       *)
(***************************************************************************)
\* needP + wantsP + savingsP in units of 1e-7 percent.
PctSum(n, w, s) == (n.w + w.w + s.w) * PctScale + (n.f + w.f + s.f)

\* round(x, 6) of x units of 1e-7 percent: the nearest multiple of 10.
Round6(x) ==
    LET q == x \div 10
        r == x % 10
    IN  10 * (IF r > 5 \/ (r = 5 /\ q % 2 = 1) THEN q + 1 ELSE q)

\* 1e-6 percent, in units of 1e-7 percent.
Tolerance == 10

\* abs(total - 100.0) > 1e-6 with total = round(needP + wantsP + savingsP, 6).
SplitRejected(n, w, s) == Abs(Round6(PctSum(n, w, s)) - 100 * PctScale) > Tolerance

\* Mutant: wantsPercent used for the savings bucket too.
SplitAmountsWantsTwice(income, n, w, s) ==
    Buckets(PctShare(income, n), PctShare(income, w), PctShare(income, w))

SplitAmounts(income, n, w, s) ==
    Buckets(PctShare(income, n), PctShare(income, w), PctShare(income, s))

SaveSplit(xn, xw, xs) ==
    LET invalid == Raises(xn) \/ Raises(xw) \/ Raises(xs)
        needP == Float(xn, Pct(50, 0))
        wantsP == Float(xw, Pct(30, 0))
        savingsP == Float(xs, Pct(20, 0))
        ok == ~invalid /\ ~SplitRejected(needP, wantsP, savingsP)
    IN  /\ Step
        /\ user_portfolio' = IF ok THEN SplitAmounts(monthly_income, needP, wantsP, savingsP)
                                    ELSE user_portfolio
        /\ custom' = (custom \/ ok)
        /\ split' = IF ok THEN <<needP, wantsP, savingsP>> ELSE split
        /\ last' = Req("save_split", ok, Missing, "", 0, <<xn, xw, xs>>)
        /\ UNCHANGED <<monthly_income, expenses, expense_id_counter,
                       monthly_remainder, now, store, calc_at, applied, debt_store,
                       in_flight, deducted>>


(***************************************************************************)
(* POST /expenses/add, app.py:398-439.                                     *)
(***************************************************************************)
\* The bucket an expense of this type is charged to and credited back to.
BucketOf(type) == IF type = "need" THEN "needs" ELSE "wants"

\* Mutant: the deduction is skipped when the bucket does not cover the amount.
DeductIfCovered(portfolio, bucket, amount) ==
    IF portfolio[bucket] < amount THEN portfolio
    ELSE [portfolio EXCEPT ![bucket] = Round2(portfolio[bucket] - amount, 0, 1)]

\* round(user_portfolio[bucket] - amount_val, 2)
Deduct(portfolio, bucket, amount) ==
    [portfolio EXCEPT ![bucket] = Round2(portfolio[bucket] - amount, 0, 1)]

\* Mutant: the id of a new expense is its position in the list.
NewExpenseNumberedByLength(id, amount, type) ==
    [id |-> Len(expenses) + 1, amount |-> -Abs(amount), type |-> type]

NewExpense(id, amount, type) == [id |-> id, amount |-> -Abs(amount), type |-> type]

\* Mutant: only a negative amount is refused.
AmountRefusedIfNegative(amount_val) == amount_val < 0

\* if amount_val <= 0: "Amount must be positive"
AmountRefused(amount_val) == amount_val <= 0

AddExpense(x, t) ==
    LET amount_val == Float(x, 0)
        expense_type == IF t = "" THEN "want" ELSE t
        ok == ~Raises(x) /\ ~AmountRefused(amount_val)
    IN  /\ Step
        /\ IF ok
           THEN /\ user_portfolio' = Deduct(user_portfolio, BucketOf(expense_type), amount_val)
                /\ expenses' = Append(expenses, NewExpense(expense_id_counter, amount_val, expense_type))
                /\ expense_id_counter' = expense_id_counter + 1
           ELSE UNCHANGED <<user_portfolio, expenses, expense_id_counter>>
        /\ last' = [Req("add_expense", ok, x, t, expense_id_counter, NoPct)
                    EXCEPT !.pre = user_portfolio]
        /\ UNCHANGED <<monthly_income, monthly_remainder, now, store, calc_at, applied,
                       custom, split, debt_store, in_flight, deducted>>

(***************************************************************************)
(* POST /expenses/delete/<id>, app.py:442-460.                             *)
(***************************************************************************)
\* next((e for e in expenses if e['id'] == expense_id), None): its index, 0 for None.
FindExpense(id) ==
    LET hits == {i \in 1..Len(expenses) : expenses[i].id = id}
    IN  IF hits = {} THEN 0 ELSE CHOOSE i \in hits : \A j \in hits : i <= j

RemoveAt(seq, i) == SubSeq(seq, 1, i - 1) \o SubSeq(seq, i + 1, Len(seq))

\* user_portfolio[bucket] += abs(to_delete['amount'])
Credit(portfolio, bucket, amount) ==
    [portfolio EXCEPT ![bucket] = portfolio[bucket] + Abs(amount)]

DeleteExpense(id) ==
    LET i == FindExpense(id)
    IN  /\ Step
        /\ IF i # 0
           THEN /\ user_portfolio' = Credit(user_portfolio, BucketOf(expenses[i].type), expenses[i].amount)
                /\ expenses' = RemoveAt(expenses, i)
           ELSE UNCHANGED <<user_portfolio, expenses>>
        /\ last' = Req("delete_expense", i # 0, Missing, "", id, NoPct)
        /\ UNCHANGED <<monthly_income, expense_id_counter, monthly_remainder, now,
                       store, calc_at, applied, custom, split, debt_store, in_flight,
                       deducted>>

(***************************************************************************)
(* Monthly rollover: calculate_monthly_remainder, app.py:75-109, and       *)
(* POST /process_monthly_remainder, app.py:735-767.                        *)
(***************************************************************************)
\* max(0, user_portfolio.get(bucket, 0)) for the three buckets.
Remainders(portfolio) ==
    Buckets(Max(0, portfolio.needs), Max(0, portfolio.wants), Max(0, portfolio.savings))

\* round(monthly_income * share + remainder, 2) for the three buckets, when
\* monthly_income > 0; the buckets as they are otherwise.
Reallocate(income, portfolio, rem) ==
    IF income > 0
    THEN Buckets(Round2(rem.needs, income * 50, 100),
                 Round2(rem.wants, income * 30, 100),
                 Round2(rem.savings, income * 20, 100))
    ELSE portfolio

StoreRemainder(rem, month) ==
    [needs |-> rem.needs, wants |-> rem.wants, savings |-> rem.savings, last_month |-> month]

\* Mutant: no check that the month differs from the one last processed.
RolloverCaseNoMonthCheck ==
    IF monthly_remainder.last_month = 0 THEN "first" ELSE "new_month"

\* The branch calculate_monthly_remainder takes.
RolloverCase ==
    IF monthly_remainder.last_month = 0 THEN "first"
    ELSE IF monthly_remainder.last_month # now.month THEN "new_month"
    ELSE "same_month"

CalculateMonthlyRemainder ==
    LET rem == Remainders(user_portfolio)
    IN  CASE RolloverCase = "first" ->
                /\ monthly_remainder' = [monthly_remainder EXCEPT !.last_month = now.month]
                /\ UNCHANGED <<user_portfolio, applied>>
          [] RolloverCase = "new_month" ->
                /\ monthly_remainder' = StoreRemainder(rem, now.month)
                /\ user_portfolio' = Reallocate(monthly_income, user_portfolio, rem)
                /\ applied' = IF monthly_income > 0 THEN applied + 1 ELSE applied
          [] OTHER ->
                UNCHANGED <<monthly_remainder, user_portfolio, applied>>

ProcessMonthlyRemainder ==
    LET rem == Remainders(user_portfolio)
    IN  /\ Step
        /\ monthly_remainder' = StoreRemainder(rem, monthly_remainder.last_month)
        /\ user_portfolio' = Reallocate(monthly_income, user_portfolio, rem)
        /\ applied' = IF monthly_income > 0 THEN applied + 1 ELSE applied
        /\ last' = Plain("process_monthly_remainder", TRUE)
        /\ UNCHANGED <<monthly_income, expenses, expense_id_counter, now, store,
                       calc_at, custom, split, debt_store, in_flight, deducted>>


(***************************************************************************)
(* Dates: strftime('%Y-%m-%d') strings compare as the dates they spell.    *)
(***************************************************************************)
DateLess(a, b) ==
    \/ a.year < b.year
    \/ a.year = b.year /\ a.month < b.month
    \/ a.year = b.year /\ a.month = b.month /\ a.day < b.day

DateLeq(a, b) == a = b \/ DateLess(a, b)

LeapYear(y) == y % 4 = 0 /\ (y % 100 # 0 \/ y % 400 = 0)

DaysInMonth(y, m) ==
    IF m = 2 THEN (IF LeapYear(y) THEN 29 ELSE 28)
    ELSE IF m \in {4, 6, 9, 11} THEN 30 ELSE 31

\* SQLite date(d, '+n days') for n below a month.
AddDays(d, n) ==
    LET len == DaysInMonth(d.year, d.month)
    IN  IF d.day + n <= len THEN Date(d.year, d.month, d.day + n)
        ELSE IF d.month = 12 THEN Date(d.year + 1, 1, d.day + n - len)
        ELSE Date(d.year, d.month + 1, d.day + n - len)

\* The first day of the month k months after d.
AddMonths(d, k) ==
    LET m == (d.month - 1) + k
    IN  Date(d.year + (m \div 12), (m % 12) + 1, 1)

SameCalendarMonth(a, b) == a.year = b.year /\ a.month = b.month

(***************************************************************************)
(* check_bill_reminders, app.py:111-155.                                   *)
(***************************************************************************)
RowsOf(table, u) == {i \in 1..Len(table) : table[i].user_id = u}

OverdueBills(u, today) ==
    {i \in RowsOf(bills_table, u) :
        DateLess(bills_table[i].due_date, today) /\ bills_table[i].status = "unpaid"}

\* Days ahead a bill counts as upcoming.
UpcomingDays == 7

UpcomingBills(u, today) ==
    {i \in RowsOf(bills_table, u) :
        /\ DateLeq(today, bills_table[i].due_date)
        /\ DateLeq(bills_table[i].due_date, AddDays(today, UpcomingDays))
        /\ bills_table[i].status = "unpaid"}

\* bill_reminders.get('daily_enabled', True), of the dict as it is and of a
\* given value of it.
DailyEnabledIn(reminders) == reminders.daily_enabled # "off"
DailyEnabled == DailyEnabledIn(bill_reminders)

\* Mutant: at most one notice a day, whatever daily_enabled is.
ReminderDueOncePerDay(reminders, u, today) ==
    /\ OverdueBills(u, today) # {} \/ UpcomingBills(u, today) # {}
    /\ reminders.last_reminder_date # today

\* if (overdue_bills or upcoming_bills) and
\*    (bill_reminders['last_reminder_date'] != today or not daily_enabled)
ReminderDueIn(reminders, u, today) ==
    /\ OverdueBills(u, today) # {} \/ UpcomingBills(u, today) # {}
    /\ reminders.last_reminder_date # today \/ ~DailyEnabledIn(reminders)

ReminderDue(u, today) == ReminderDueIn(bill_reminders, u, today)

\* The dict after check_bill_reminders, run by user u on a given value of it.
Reminded(reminders, u) ==
    IF ReminderDueIn(reminders, u, now)
    THEN [reminders EXCEPT !.last_reminder_date = now, !.reminder_sent = TRUE]
    ELSE reminders

CheckBillReminders(u) == bill_reminders' = Reminded(bill_reminders, u)

(***************************************************************************)
(* GET /, app.py:241-310: the rollover, then the reminders; the rest of    *)
(* the handler reads the state and renders it.                             *)
(***************************************************************************)
Dashboard(u) ==
    /\ Step
    /\ CalculateMonthlyRemainder
    /\ CheckBillReminders(u)
    /\ calc_at' = now
    /\ last' = [Req("dashboard", TRUE, Missing, "", 0, NoPct)
                EXCEPT !.again = SameCalendarMonth(calc_at, now), !.user = u,
                       !.notice = ReminderDue(u, now)]
    /\ UNCHANGED <<monthly_income, expenses, expense_id_counter, now, bills_table,
                   next_bill_id, goals_table, next_goal_id, custom, split, debt_store,
                   in_flight, deducted>>


(***************************************************************************)
(* Bills: POST /bills/add, /bills/pay/<id>, /bills/delete/<id>,            *)
(* app.py:579-680.                                                         *)
(***************************************************************************)
\* Mutant: the row is looked up by its id alone.
FindRowOfAnyUser(table, id, u) ==
    LET hits == {i \in 1..Len(table) : table[i].id = id}
    IN  IF hits = {} THEN 0 ELSE CHOOSE i \in hits : TRUE

\* SELECT * FROM <table> WHERE id = ? AND user_id = ?: the row's index, 0 for none.
FindRow(table, id, u) ==
    LET hits == {i \in 1..Len(table) : table[i].id = id /\ table[i].user_id = u}
    IN  IF hits = {} THEN 0 ELSE CHOOSE i \in hits : TRUE

\* Mutant: a new bill row starts with status 'paid'.
NewBillPaid(id, u, amount, due) ==
    [id |-> id, user_id |-> u, amount |-> amount, due_date |-> due, status |-> "paid"]

\* INSERT INTO bills (user_id, title, amount, due_date, ...): the status column
\* is not given and takes its default, status TEXT DEFAULT 'unpaid' (db.py:86).
NewBill(id, u, amount, due) ==
    [id |-> id, user_id |-> u, amount |-> amount, due_date |-> due, status |-> "unpaid"]

AddBill(u, b) ==
    LET amount == Float(b.amount, 0)
        ok == ~Raises(b.amount) /\ ~(~b.title \/ amount <= 0 \/ b.due = NoDate)
    IN  /\ Step
        /\ IF ok
           THEN /\ bills_table' = Append(bills_table,
                                              NewBill(next_bill_id, u, amount, b.due))
                /\ next_bill_id' = next_bill_id + 1
           ELSE UNCHANGED <<bills_table, next_bill_id>>
        /\ last' = Plain("add_bill", ok)
        /\ UNCHANGED <<monthly_income, user_portfolio, expenses, expense_id_counter,
                       monthly_remainder, now, goals_table, next_goal_id,
                       bill_reminders, calc_at, applied, custom, split, debt_store,
                       in_flight, deducted>>

\* Mutant: the needs bucket is never found insufficient.
InsufficientNeedsNever(portfolio, amount) == FALSE

\* if user_portfolio.get('needs', 0) < bill['amount']: "Insufficient funds"
InsufficientNeeds(portfolio, amount) == portfolio.needs < amount

\* Mutant: no bill is found already paid.
AlreadyPaidNever(bill) == FALSE

\* if bill['status'] == 'paid': "Bill is already paid"
AlreadyPaid(bill) == bill.status = "paid"

\* The message pay_bill flashes about row i of bills (0: no row).
PayBillFlash(i) ==
    IF i = 0 THEN "Bill not found"
    ELSE IF AlreadyPaid(bills_table[i]) THEN "Bill is already paid"
    ELSE IF InsufficientNeeds(user_portfolio, bills_table[i].amount)
         THEN "Insufficient funds in needs allocation"
    ELSE "paid successfully"

PayBill(u, bill_id) ==
    LET i == FindRow(bills_table, bill_id, u)
        ok == /\ i # 0
              /\ ~AlreadyPaid(bills_table[i])
              /\ ~InsufficientNeeds(user_portfolio, bills_table[i].amount)
    IN  /\ Step
        /\ IF ok
           THEN /\ bills_table' = [bills_table EXCEPT ![i].status = "paid"]
                /\ user_portfolio' = Deduct(user_portfolio, "needs", bills_table[i].amount)
                /\ expenses' = Append(expenses,
                        NewExpense(expense_id_counter, bills_table[i].amount, "need"))
                /\ expense_id_counter' = expense_id_counter + 1
                /\ deducted' = deducted \cup {bill_id}
           ELSE UNCHANGED <<bills_table, user_portfolio, expenses, expense_id_counter,
                            deducted>>
        /\ last' = IF i = 0 THEN Flash(Plain("pay_bill", FALSE), PayBillFlash(i))
                    ELSE [ReqBy(u, "pay_bill", ok, Missing, bill_id)
                              EXCEPT !.pre = user_portfolio, !.flash = PayBillFlash(i)]
        /\ UNCHANGED <<monthly_income, monthly_remainder, now, next_bill_id,
                       goals_table, next_goal_id, bill_reminders, calc_at, applied,
                       custom, split, debt_store, in_flight>>

DeleteBill(u, bill_id) ==
    LET i == FindRow(bills_table, bill_id, u)
    IN  /\ Step
        /\ bills_table' = IF i # 0 THEN RemoveAt(bills_table, i) ELSE bills_table
        /\ deducted' = IF i # 0 THEN deducted \ {bill_id} ELSE deducted
        /\ last' = Flash(Plain("delete_bill", i # 0),
                          IF i = 0 THEN "Bill not found" ELSE "deleted successfully")
        /\ UNCHANGED <<monthly_income, user_portfolio, expenses, expense_id_counter,
                       monthly_remainder, now, next_bill_id, goals_table,
                       next_goal_id, bill_reminders, calc_at, applied, custom, split,
                       debt_store, in_flight>>

(***************************************************************************)
(* Savings goals: POST /savings/add_goal, /savings/deposit/<id>,           *)
(* app.py:500-559.                                                         *)
(***************************************************************************)
AddGoal(u, g) ==
    LET target == Float(g.target, 0)
        ok == ~Raises(g.target) /\ ~(~g.name \/ target <= 0)
    IN  /\ Step
        /\ IF ok
           THEN /\ goals_table' = Append(goals_table,
                        [id |-> next_goal_id, user_id |-> u, target |-> target,
                         progress |-> 0])
                /\ next_goal_id' = next_goal_id + 1
           ELSE UNCHANGED <<goals_table, next_goal_id>>
        /\ last' = Plain("add_goal", ok)
        /\ UNCHANGED <<monthly_income, user_portfolio, expenses, expense_id_counter,
                       monthly_remainder, now, bills_table, next_bill_id,
                       bill_reminders, calc_at, applied, custom, split, debt_store,
                       in_flight, deducted>>

DepositToGoal(u, goal_id, x) ==
    LET amount == Float(x, 0)
        i == FindRow(goals_table, goal_id, u)
        ok == ~Raises(x) /\ ~(amount > user_portfolio.savings) /\ i # 0
        flash == IF Raises(x) THEN "Invalid amount"
                 ELSE IF amount > user_portfolio.savings
                      THEN "Amount exceeds available savings"
                 ELSE IF i = 0 THEN "Goal not found"
                 ELSE "Successfully saved"
    IN  /\ Step
        /\ IF ok
           THEN /\ goals_table' = [goals_table EXCEPT
                        ![i].progress = Round2(goals_table[i].progress + amount, 0, 1)]
                /\ user_portfolio' = Deduct(user_portfolio, "savings", amount)
           ELSE UNCHANGED <<goals_table, user_portfolio>>
        /\ last' = IF i = 0 THEN Flash(Plain("deposit_to_goal", FALSE), flash)
                    ELSE [ReqBy(u, "deposit_to_goal", ok, x, goal_id)
                              EXCEPT !.pre = user_portfolio, !.flash = flash]
        /\ UNCHANGED <<monthly_income, expenses, expense_id_counter, monthly_remainder,
                       now, bills_table, next_bill_id, next_goal_id, bill_reminders,
                       calc_at, applied, custom, split, debt_store, in_flight, deducted>>

(***************************************************************************)
(* The clock moves between two requests.                                   *)
(***************************************************************************)
AdvanceClock(k) ==
    /\ Step
    /\ now' = AddMonths(now, k)
    /\ applied' = 0
    /\ last' = Plain("clock", TRUE)
    /\ UNCHANGED <<monthly_income, user_portfolio, expenses, expense_id_counter,
                   monthly_remainder, store, calc_at, custom, split, debt_store,
                   in_flight, deducted>>

\* The requests of the allocator, the bills and the goals.  Bills and goals
\* are created by Owner; either user pays, deletes and deposits, so a request
\* meets rows of its own user and rows of the other one.
Next ==
    \/ \E x \in IncomeInputs : SetIncome(x)
    \/ \E p \in SplitInputs : SaveSplit(p[1], p[2], p[3])
    \/ \E e \in ExpenseInputs : AddExpense(e.amount, e.type)
    \/ \E id \in 1..expense_id_counter : DeleteExpense(id)
    \/ \E u \in Users : Dashboard(u)
    \/ ProcessMonthlyRemainder
    \/ \E b \in BillInputs : AddBill(Owner, b)
    \/ \E u \in Users, id \in 1..next_bill_id : PayBill(u, id)
    \/ \E u \in Users, id \in 1..next_bill_id : DeleteBill(u, id)
    \/ \E g \in GoalInputs : AddGoal(Owner, g)
    \/ \E u \in Users, id \in 1..next_goal_id, x \in DepositInputs : DepositToGoal(u, id, x)
    \/ \E k \in MonthJumps : AdvanceClock(k)

Spec == Init /\ [][Next]_vars


(***************************************************************************)
(* Incomes of the order of 10^15.  The amounts are Python floats, IEEE      *)
(* doubles of 53 significant bits: from 2^47 (about 1.4 * 10^14) on,        *)
(* neighbouring doubles are more than three cents apart, and income * 0.30  *)
(* and round(x, 2) return the double nearest the exact result.              *)
(*                                                                         *)
(* In LargeSpec an amount is a record [hi, lo]: hi * 10^14 currency units   *)
(* plus lo millionths, lo far below 10^14, so that hi alone tells the       *)
(* binade of the double.                                                    *)
(***************************************************************************)
Large(hi, lo) == [hi |-> hi, lo |-> lo]

\* Eighths of a currency unit above 10^15 in the largest income submitted.
MaxEighths == 23

\* monthlyIncome values 10^15 + k/8, each one a double.
LargeIncomeInputs == {Large(10, 125000 * k) : k \in 0..MaxEighths}

\* needPercent, wantsPercent, savingsPercent triples for /save_split:
\* 60/20/20, 50/30/30 and no fields at all.
LargeSplitInputs ==
    {<<Num(Pct(60, 0)), Num(Pct(20, 0)), Num(Pct(20, 0))>>,
     <<Num(Pct(50, 0)), Num(Pct(30, 0)), Num(Pct(30, 0))>>,
     <<PctMissing, PctMissing, PctMissing>>}

\* The distance in millionths between neighbouring doubles around
\* hi * 10^14: 2^-5 in [2^47, 2^48), 2^-4 in [2^48, 2^49), 2^-3 in
\* [2^49, 2^50); 0 is exact.
Ulp(hi) ==
    IF hi = 0 THEN 1
    ELSE IF hi <= 2 THEN 31250
    ELSE IF hi <= 5 THEN 62500
    ELSE 125000

\* The double nearest t millionths (inexact: nearest a real number strictly
\* between t and t + 1) on the grid of spacing g; a tie goes to the even
\* mantissa.
ToGrid(t, inexact, g) ==
    LET q == t \div g
        r == t % g
        up == IF inexact THEN 2 * r >= g
              ELSE 2 * r > g \/ (2 * r = g /\ q % 2 = 1)
    IN  g * (IF up THEN q + 1 ELSE q)

\* The float literal for tenths / 10 minus tenths / 10, times 10^14, in
\* units of 10^-9 and truncated: the double for 0.30 (and 30 / 100.0) is
\* 0.3 - 0.2 * 2^-54, the one for 0.20 is 0.2 + 0.2 * 2^-54, the one for
\* 60 / 100.0 is 0.6 - 0.4 * 2^-54, and 0.50 is exact.
LiteralError(tenths) ==
    CASE tenths = 5 -> 0
      [] tenths = 3 -> -1110223
      [] tenths = 2 -> 1110223
      [] tenths = 6 -> -2220446

\* income * share as a double, for the share literal tenths / 10: the
\* exact product of the two doubles, rounded to the nearest double.
FlMul(a, tenths) ==
    LET hi == (a.hi * tenths) \div 10
        e == a.hi * LiteralError(tenths)
        floor == IF e < 0 THEN (e - 1) \div 1000 ELSE e \div 1000
    IN  Large(hi, ToGrid((a.lo \div 10) * tenths + floor, e # 0, Ulp(hi)))

\* round(x, 2) of a double: the nearest multiple of 0.01, a tie going to
\* the even cent, and then the double nearest that.
LargeRound2(a) ==
    LET q == a.lo \div 10000
        r == a.lo % 10000
        up == r > 5000 \/ (r = 5000 /\ q % 2 = 1)
    IN  Large(a.hi, ToGrid(10000 * (IF up THEN q + 1 ELSE q), FALSE, Ulp(a.hi)))

LargeShare(income, tenths) == LargeRound2(FlMul(income, tenths))

LargeDefaultSplit(income) ==
    Buckets(LargeShare(income, 5), LargeShare(income, 3), LargeShare(income, 2))

LargeSplitAmounts(income, n, w, s) ==
    Buckets(LargeShare(income, n.w \div 10), LargeShare(income, w.w \div 10),
            LargeShare(income, s.w \div 10))

LargeInit ==
    /\ monthly_income = Large(0, 0)
    /\ user_portfolio = Buckets(Large(0, 0), Large(0, 0), Large(0, 0))
    /\ expenses = <<>>
    /\ expense_id_counter = 1
    /\ monthly_remainder = [needs |-> 0, wants |-> 0, savings |-> 0, last_month |-> 0]
    /\ now = Start
    /\ bills_table = <<>>
    /\ next_bill_id = 1
    /\ goals_table = <<>>
    /\ next_goal_id = 1
    /\ bill_reminders = [last_reminder_date |-> NoDate, reminder_sent |-> FALSE,
                         daily_enabled |-> "unset"]
    /\ calc_at = NoDate
    /\ last = Plain("init", TRUE)
    /\ applied = 0
    /\ custom = FALSE
    /\ split = DefaultPercentages
    /\ debts_table = <<>>
    /\ next_debt_id = 1
    /\ debt_payments = <<>>
    /\ prepayment = NoCall
    /\ in_flight = [t \in Threads |-> Idle]
    /\ deducted = {}
    /\ steps = 0

\* POST /set_income with an income of the order of 10^15.
LargeSetIncome(x) ==
    /\ Step
    /\ monthly_income' = x
    /\ user_portfolio' = LargeDefaultSplit(monthly_income')
    /\ split' = DefaultPercentages
    /\ last' = Req("set_income", TRUE, Num(x), "", 0, NoPct)
    /\ UNCHANGED <<expenses, expense_id_counter, monthly_remainder, now,
                   store, calc_at, applied, custom, debt_store, in_flight, deducted>>

\* POST /save_split while the income is of the order of 10^15.
LargeSaveSplit(xn, xw, xs) ==
    LET needP == Float(xn, Pct(50, 0))
        wantsP == Float(xw, Pct(30, 0))
        savingsP == Float(xs, Pct(20, 0))
        ok == ~SplitRejected(needP, wantsP, savingsP)
    IN  /\ Step
        /\ user_portfolio' = IF ok THEN LargeSplitAmounts(monthly_income, needP, wantsP, savingsP)
                                    ELSE user_portfolio
        /\ custom' = (custom \/ ok)
        /\ split' = IF ok THEN <<needP, wantsP, savingsP>> ELSE split
        /\ last' = Req("save_split", ok, Missing, "", 0, <<xn, xw, xs>>)
        /\ UNCHANGED <<monthly_income, expenses, expense_id_counter,
                       monthly_remainder, now, store, calc_at, applied, debt_store,
                       in_flight, deducted>>

LargeNext ==
    \/ \E x \in LargeIncomeInputs : LargeSetIncome(x)
    \/ \E p \in LargeSplitInputs : LargeSaveSplit(p[1], p[2], p[3])

LargeSpec == LargeInit /\ [][LargeNext]_vars

(***************************************************************************)
(* The allocator from the state after POST /set_income and a first GET /,  *)
(* so that a saved split, a month's spending and the next month's          *)
(* rollover fit in one behaviour.                                          *)
(***************************************************************************)
\* monthlyIncome values of the POST /set_income before the first GET /.
RolloverIncomes == {16, 10000000}

RolloverInit ==
    /\ monthly_income \in RolloverIncomes
    /\ user_portfolio = DefaultSplit(monthly_income)
    /\ expenses = <<>>
    /\ expense_id_counter = 1
    /\ monthly_remainder = StoreRemainder(Buckets(0, 0, 0), Start.month)
    /\ now = Start
    /\ bills_table = <<>>
    /\ next_bill_id = 1
    /\ goals_table = <<>>
    /\ next_goal_id = 1
    /\ bill_reminders = [last_reminder_date |-> NoDate, reminder_sent |-> FALSE,
                         daily_enabled |-> "unset"]
    /\ calc_at = Start
    /\ last = Req("dashboard", TRUE, Missing, "", 0, NoPct)
    /\ applied = 0
    /\ custom = FALSE
    /\ split = DefaultPercentages
    /\ debts_table = <<>>
    /\ next_debt_id = 1
    /\ debt_payments = <<>>
    /\ prepayment = NoCall
    /\ in_flight = [t \in Threads |-> Idle]
    /\ deducted = {}
    /\ steps = 0

RolloverNext ==
    \/ \E x \in IncomeInputs : SetIncome(x)
    \/ \E p \in SplitInputs : SaveSplit(p[1], p[2], p[3])
    \/ \E e \in ExpenseInputs : AddExpense(e.amount, e.type)
    \/ \E id \in 1..expense_id_counter : DeleteExpense(id)
    \/ \E u \in Users : Dashboard(u)
    \/ ProcessMonthlyRemainder
    \/ \E k \in MonthJumps : AdvanceClock(k)

RolloverSpec == RolloverInit /\ [][RolloverNext]_vars

(***************************************************************************)
(* POST /bills/pay/<id>, app.py:609-658, statement by statement.  The      *)
(* server runs each request in its own thread, so that between two         *)
(* statements of one pay_bill request other requests may run.              *)
(***************************************************************************)
\* SELECT the bill and the three checks; a request that passes them goes on
\* with the bill it fetched.
PayBegin(t, u, bill_id) ==
    LET i == FindRow(bills_table, bill_id, u)
        ok == /\ i # 0
              /\ ~AlreadyPaid(bills_table[i])
              /\ ~InsufficientNeeds(user_portfolio, bills_table[i].amount)
    IN  /\ Step
        /\ in_flight[t].pc = "idle"
        /\ in_flight' = IF ok
                        THEN [in_flight EXCEPT ![t] = [pc |-> "checked", bill_id |-> bill_id,
                                                       amount |-> bills_table[i].amount]]
                        ELSE in_flight
        /\ last' = IF i = 0 THEN Flash(Plain("pay_bill", FALSE), PayBillFlash(i))
                    ELSE [ReqBy(u, "pay_bill", ok, Missing, bill_id)
                              EXCEPT !.pre = user_portfolio, !.flash = PayBillFlash(i)]
        /\ UNCHANGED <<monthly_income, user_portfolio, expenses, expense_id_counter,
                       monthly_remainder, now, store, calc_at, applied, custom, split,
                       debt_store, deducted>>

\* UPDATE bills SET status = 'paid' WHERE id = ?, and the commit.
PayCommit(t) ==
    /\ in_flight[t].pc = "checked"
    /\ bills_table' = [i \in 1..Len(bills_table) |->
                          IF bills_table[i].id = in_flight[t].bill_id
                          THEN [bills_table[i] EXCEPT !.status = "paid"]
                          ELSE bills_table[i]]
    /\ in_flight' = [in_flight EXCEPT ![t].pc = "committed"]
    /\ UNCHANGED <<monthly_income, user_portfolio, expenses, expense_id_counter,
                   monthly_remainder, now, next_bill_id, goals_table, next_goal_id,
                   bill_reminders, calc_at, last, applied, custom, split, debt_store,
                   deducted, steps>>

\* user_portfolio['needs'] = round(user_portfolio.get('needs', 0) - bill['amount'], 2)
PayDeduct(t) ==
    /\ in_flight[t].pc = "committed"
    /\ user_portfolio' = Deduct(user_portfolio, "needs", in_flight[t].amount)
    /\ deducted' = deducted \cup {in_flight[t].bill_id}
    /\ in_flight' = [in_flight EXCEPT ![t].pc = "deducted"]
    /\ UNCHANGED <<monthly_income, expenses, expense_id_counter, monthly_remainder, now,
                   store, calc_at, last, applied, custom, split, debt_store, steps>>

\* The expense record of the payment, and the end of the request.
PayRecord(t) ==
    /\ in_flight[t].pc = "deducted"
    /\ expenses' = Append(expenses, NewExpense(expense_id_counter, in_flight[t].amount, "need"))
    /\ expense_id_counter' = expense_id_counter + 1
    /\ in_flight' = [in_flight EXCEPT ![t] = Idle]
    /\ UNCHANGED <<monthly_income, user_portfolio, monthly_remainder, now, store, calc_at,
                   last, applied, custom, split, debt_store, deducted, steps>>

PayNext ==
    \/ \E x \in IncomeInputs : SetIncome(x)
    \/ \E u \in Users, b \in BillInputs : AddBill(u, b)
    \/ \E u \in Users, id \in 1..next_bill_id : DeleteBill(u, id)
    \/ \E t \in Threads, u \in Users, id \in 1..next_bill_id : PayBegin(t, u, id)
    \/ \E t \in Threads : PayCommit(t)
    \/ \E t \in Threads : PayDeduct(t)
    \/ \E t \in Threads : PayRecord(t)

PaySpec == Init /\ [][PayNext]_vars

(***************************************************************************)
(* Debts: POST /debts/add and /debts/<id>/pay, app.py:1219-1372.  The      *)
(* debt routes touch only the debts and debt_payments tables.  Amounts are *)
(* whole numbers of 1/1024 rupee and the rates 0 and 300 percent a year    *)
(* (rate / 12 / 100 = 0.25), so that every product, difference and         *)
(* comparison of make_payment is exact in doubles as it is here.           *)
(***************************************************************************)
\* Units of debt money in one rupee.
Rupee == 2^10

\* What a client submits to /debts/add: principal_amount, interest_rate and
\* whether start_date and end_date parse.
DebtInputs ==
    {[principal |-> Bad, rate |-> Num(300), dates |-> TRUE],
     [principal |-> Num(100 * Rupee), rate |-> Num(0), dates |-> TRUE],
     [principal |-> Num(100 * Rupee), rate |-> Num(300), dates |-> TRUE],
     [principal |-> Num(100 * Rupee), rate |-> Missing, dates |-> TRUE],
     [principal |-> Num(100 * Rupee), rate |-> Num(300), dates |-> FALSE]}

\* payment_amount submitted to /debts/<id>/pay: unparsable, -50, 10, 50, 100.
PaymentInputs == {Bad, Num(-50 * Rupee), Num(10 * Rupee), Num(50 * Rupee), Num(100 * Rupee)}

\* payment_type submitted ("" when the field is absent).
PaymentTypeInputs == {"", "emi", "prepayment"}

\* request.form['x']: a missing field raises, as an unparsable one does.
Required(x) == Raises(x) \/ x.k = "missing"

\* INSERT INTO debts (..., principal_amount, outstanding_amount, ...) VALUES
\* (..., principal_amount, principal_amount, ...); status takes its default,
\* 'active' (db.py:177).
NewDebt(id, u, principal_amount, interest_rate) ==
    [id |-> id, user_id |-> u, principal_amount |-> principal_amount,
     outstanding_amount |-> principal_amount, interest_rate |-> interest_rate,
     status |-> "active"]

AddDebt(u, d) ==
    LET ok == ~Required(d.principal) /\ ~Required(d.rate) /\ d.dates
    IN  /\ Step
        /\ IF ok
           THEN /\ debts_table' = Append(debts_table,
                        NewDebt(next_debt_id, u, d.principal.v, d.rate.v))
                /\ next_debt_id' = next_debt_id + 1
           ELSE UNCHANGED <<debts_table, next_debt_id>>
        /\ last' = Plain("add_debt", ok)
        /\ UNCHANGED <<monthly_income, user_portfolio, expenses, expense_id_counter,
                       monthly_remainder, now, store, calc_at, applied, custom, split,
                       debt_payments, prepayment, in_flight, deducted>>

\* request.form.get('payment_type', 'emi')
PaymentType(t) == IF t = "" THEN "emi" ELSE t

\* debt['outstanding_amount'] * (debt['interest_rate'] / 12 / 100)
Interest(debt) == (debt.outstanding_amount * debt.interest_rate) \div 1200

\* Mutant: an emi payment smaller than the interest keeps its negative
\* principal part.
PaymentSplitUnclamped(debt, payment_amount, payment_type) ==
    IF payment_type = "emi"
    THEN [principal_paid |-> payment_amount - Interest(debt), interest_paid |-> Interest(debt)]
    ELSE [principal_paid |-> payment_amount, interest_paid |-> 0]

\* The payment breakdown, app.py:1329-1340.
PaymentSplit(debt, payment_amount, payment_type) ==
    IF payment_type = "emi"
    THEN IF payment_amount - Interest(debt) < 0
         THEN [principal_paid |-> 0, interest_paid |-> payment_amount]
         ELSE [principal_paid |-> payment_amount - Interest(debt),
               interest_paid |-> Interest(debt)]
    ELSE [principal_paid |-> payment_amount, interest_paid |-> 0]

\* Mutant: a debt is closed only below zero.
FullyPaidBelowZero(new_outstanding) == new_outstanding < 0

\* if new_outstanding <= 0: UPDATE debts SET status = 'closed'
FullyPaid(new_outstanding) == new_outstanding <= 0

MakePayment(u, debt_id, x, t) ==
    LET i == FindRow(debts_table, debt_id, u)
        ok == ~Required(x) /\ i # 0
        debt == debts_table[i]
        payment_type == PaymentType(t)
        paid == PaymentSplit(debt, x.v, payment_type)
        new_outstanding == Max(0, debt.outstanding_amount - paid.principal_paid)
        flash == IF Required(x) THEN "Error making payment"
                 ELSE IF i = 0 THEN "Debt not found"
                 ELSE IF FullyPaid(new_outstanding) THEN "fully paid off"
                 ELSE "recorded successfully"
    IN  /\ Step
        /\ IF ok
           THEN /\ debt_payments' = Append(debt_payments,
                        [debt_id |-> debt_id, user_id |-> u, amount |-> x.v,
                         payment_type |-> payment_type,
                         principal_paid |-> paid.principal_paid,
                         interest_paid |-> paid.interest_paid,
                         remaining_balance |-> new_outstanding])
                /\ debts_table' = [debts_table EXCEPT
                        ![i].outstanding_amount = new_outstanding,
                        ![i].status = IF FullyPaid(new_outstanding) THEN "closed" ELSE @]
           ELSE UNCHANGED <<debts_table, debt_payments>>
        /\ last' = IF i = 0 THEN Flash(Plain("make_payment", FALSE), flash)
                    ELSE [ReqBy(u, "make_payment", ok, x, debt_id)
                              EXCEPT !.typ = payment_type, !.flash = flash]
        /\ UNCHANGED <<monthly_income, user_portfolio, expenses, expense_id_counter,
                       monthly_remainder, now, store, calc_at, applied, custom, split,
                       next_debt_id, prepayment, in_flight, deducted>>

DebtNext ==
    \/ \E u \in Users, d \in DebtInputs : AddDebt(u, d)
    \/ \E u \in Users, id \in 1..next_debt_id, x \in PaymentInputs, t \in PaymentTypeInputs :
          MakePayment(u, id, x, t)

DebtSpec == Init /\ [][DebtNext]_vars

(***************************************************************************)
(* The EMI calculator: calculate_emi and calculate_prepayment_savings,     *)
(* app.py:1152-1182, as functions of their arguments.  Money is in         *)
(* thousandths; an EMI is a fraction [n, d] of thousandths, because at     *)
(* rate 0 calculate_emi returns principal / tenure_months unrounded.       *)
(***************************************************************************)
\* Largest tenure_months of a call.
MaxTenure == 3

\* Arguments of a call: principals 0, 60.00 and 120.00, yearly rates 0, 300
\* and 1200 percent, prepayments 30.00, 60.00, 120.00 and 200.00.
PrincipalInputs == {0, 60000, 120000}
RateInputs == {0, 300, 1200}
PrepaymentInputs == {30000, 60000, 120000, 200000}

RECURSIVE GCD(_, _)
GCD(a, b) == IF b = 0 THEN a ELSE GCD(b, a % b)

RECURSIVE Pow(_, _)
Pow(x, k) == IF k = 0 THEN 1 ELSE x * Pow(x, k - 1)

\* monthly_rate = rate / 12 / 100 as a fraction a / b in lowest terms.
MonthlyRate(rate) == [a |-> rate \div GCD(rate, 1200), b |-> 1200 \div GCD(rate, 1200)]

\* calculate_emi: principal / tenure_months at rate 0, else
\* round(principal * (r * (1 + r)^t) / ((1 + r)^t - 1), 2) with r = a / b,
\* which is principal * a * (a + b)^t / (b * ((a + b)^t - b^t)).
CalculateEmi(principal, rate, tenure_months) ==
    IF rate = 0
    THEN [n |-> principal, d |-> tenure_months]
    ELSE LET r == MonthlyRate(rate)
             grown == Pow(r.a + r.b, tenure_months)
         IN  [n |-> Round2(0, principal * (r.a * grown),
                           r.b * (grown - Pow(r.b, tenure_months))),
              d |-> 1]

\* calculate_prepayment_savings: <<interest_saved, emi_reduction, new_emi>>.
\* The two EMIs of a call have the same denominator.
CalculatePrepaymentSavings(principal, rate, tenure_months, prepayment_amount) ==
    LET original_emi == CalculateEmi(principal, rate, tenure_months)
        new_principal == principal - prepayment_amount
        new_emi == CalculateEmi(new_principal, rate, tenure_months)
    IN  IF new_principal <= 0
        THEN <<0, 0, 0>>
        ELSE <<Round2(-prepayment_amount,
                      (original_emi.n - new_emi.n) * tenure_months, new_emi.d),
               Round2(0, original_emi.n - new_emi.n, new_emi.d),
               Round2(0, new_emi.n, new_emi.d)>>

PrepayInit ==
    /\ monthly_income = 0
    /\ user_portfolio = Buckets(0, 0, 0)
    /\ expenses = <<>>
    /\ expense_id_counter = 1
    /\ monthly_remainder = [needs |-> 0, wants |-> 0, savings |-> 0, last_month |-> 0]
    /\ now = Start
    /\ bills_table = <<>>
    /\ next_bill_id = 1
    /\ goals_table = <<>>
    /\ next_goal_id = 1
    /\ bill_reminders = [last_reminder_date |-> NoDate, reminder_sent |-> FALSE,
                         daily_enabled |-> "unset"]
    /\ calc_at = NoDate
    /\ last = Plain("init", TRUE)
    /\ applied = 0
    /\ custom = FALSE
    /\ split = DefaultPercentages
    /\ debts_table = <<>>
    /\ next_debt_id = 1
    /\ debt_payments = <<>>
    /\ prepayment \in [principal : PrincipalInputs, rate : RateInputs,
                       tenure_months : 1..MaxTenure,
                       prepayment_amount : PrepaymentInputs, returned : {<<>>}]
    /\ in_flight = [t \in Threads |-> Idle]
    /\ deducted = {}
    /\ steps = 0

\* The call returns.
PrepaymentCall ==
    /\ prepayment.returned = <<>>
    /\ prepayment' = [prepayment EXCEPT !.returned =
                         CalculatePrepaymentSavings(prepayment.principal, prepayment.rate,
                                                    prepayment.tenure_months,
                                                    prepayment.prepayment_amount)]
    /\ UNCHANGED <<monthly_income, user_portfolio, expenses, expense_id_counter,
                   monthly_remainder, now, store, calc_at, last, applied, custom, split,
                   debts_table, next_debt_id, debt_payments, in_flight, deducted, steps>>

PrepayNext == PrepaymentCall

PrepaySpec == PrepayInit /\ [][PrepayNext]_vars

(***************************************************************************)
(* The reminder tracker by the day: POST /check_bill_reminders and         *)
(* /toggle_daily_reminders, app.py:768-810, next to the dashboard and the  *)
(* bills, with bills due around today and a clock that moves by one day.   *)
(***************************************************************************)
\* Bills submitted to /bills/add, due yesterday, today, in seven and in
\* eight days of the first day.
ReminderBillInputs ==
    {[title |-> TRUE, amount |-> Num(300000), due |-> d] :
        d \in {Date(2026, 10, 31), Date(2026, 11, 1), Date(2026, 11, 8), Date(2026, 11, 9)}}

\* bill_reminders['reminder_sent'] = False; ['last_reminder_date'] = None
ResetReminders == [bill_reminders EXCEPT !.reminder_sent = FALSE,
                                         !.last_reminder_date = NoDate]

ManualBillReminderCheck(u) ==
    /\ Step
    /\ bill_reminders' = Reminded(ResetReminders, u)
    /\ last' = [ReqBy(u, "check_bill_reminders", TRUE, Missing, 0)
                EXCEPT !.notice = ReminderDueIn(ResetReminders, u, now)]
    /\ UNCHANGED <<monthly_income, user_portfolio, expenses, expense_id_counter,
                   monthly_remainder, now, bills_table, next_bill_id, goals_table,
                   next_goal_id, calc_at, applied, custom, split, debt_store, in_flight,
                   deducted>>

\* not bill_reminders.get('daily_enabled', False)
Toggled(daily_enabled) == IF daily_enabled = "on" THEN "off" ELSE "on"

ToggleDailyReminders ==
    /\ Step
    /\ bill_reminders' = [bill_reminders EXCEPT !.daily_enabled = Toggled(@)]
    /\ last' = Plain("toggle_daily_reminders", TRUE)
    /\ UNCHANGED <<monthly_income, user_portfolio, expenses, expense_id_counter,
                   monthly_remainder, now, bills_table, next_bill_id, goals_table,
                   next_goal_id, calc_at, applied, custom, split, debt_store, in_flight,
                   deducted>>

\* Midnight passes between two requests.
NextDay ==
    /\ Step
    /\ now' = AddDays(now, 1)
    /\ applied' = IF SameCalendarMonth(now, now') THEN applied ELSE 0
    /\ last' = Plain("clock", TRUE)
    /\ UNCHANGED <<monthly_income, user_portfolio, expenses, expense_id_counter,
                   monthly_remainder, store, calc_at, custom, split, debt_store,
                   in_flight, deducted>>

\* The program at its start, or after two toggles (daily reminders off).
ReminderInit ==
    /\ monthly_income = 0
    /\ user_portfolio = Buckets(0, 0, 0)
    /\ expenses = <<>>
    /\ expense_id_counter = 1
    /\ monthly_remainder = [needs |-> 0, wants |-> 0, savings |-> 0, last_month |-> 0]
    /\ now = Start
    /\ bills_table = <<>>
    /\ next_bill_id = 1
    /\ goals_table = <<>>
    /\ next_goal_id = 1
    /\ \E e \in {"unset", "off"} :
          bill_reminders = [last_reminder_date |-> NoDate, reminder_sent |-> FALSE,
                            daily_enabled |-> e]
    /\ calc_at = NoDate
    /\ last = Plain("init", TRUE)
    /\ applied = 0
    /\ custom = FALSE
    /\ split = DefaultPercentages
    /\ debts_table = <<>>
    /\ next_debt_id = 1
    /\ debt_payments = <<>>
    /\ prepayment = NoCall
    /\ in_flight = [t \in Threads |-> Idle]
    /\ deducted = {}
    /\ steps = 0

ReminderNext ==
    \/ \E x \in IncomeInputs : SetIncome(x)
    \/ \E u \in Users, b \in ReminderBillInputs : AddBill(u, b)
    \/ \E u \in Users, id \in 1..next_bill_id : PayBill(u, id)
    \/ \E u \in Users : Dashboard(u)
    \/ \E u \in Users : ManualBillReminderCheck(u)
    \/ ToggleDailyReminders
    \/ NextDay

ReminderSpec == ReminderInit /\ [][ReminderNext]_vars

(***************************************************************************)
(* The four routes that look a row up by id and user (pay_bill,            *)
(* delete_bill, deposit_to_goal, make_payment) together, on rows that      *)
(* user 1 created, asked for by either user.                               *)
(***************************************************************************)
LookupBills == {b \in BillInputs : b.title /\ b.amount = Num(300000) /\ b.due # NoDate}
LookupGoals == {g \in GoalInputs : g.name /\ g.target.k = "num" /\ g.target.v > 0}
LookupDebts == {d \in DebtInputs : d.principal.k = "num" /\ d.rate = Num(0) /\ d.dates}
LookupDeposits == {Num(100000), Num(-50000), Num(3000000)}
LookupPayments == {Bad, Num(50 * Rupee)}

LookupNext ==
    \/ SetIncome(Num(10000000))
    \/ \E b \in LookupBills : AddBill(Owner, b)
    \/ \E g \in LookupGoals : AddGoal(Owner, g)
    \/ \E d \in LookupDebts : AddDebt(Owner, d)
    \/ \E u \in Users, id \in 1..next_bill_id : PayBill(u, id)
    \/ \E u \in Users, id \in 1..next_bill_id : DeleteBill(u, id)
    \/ \E u \in Users, id \in 1..next_goal_id, x \in LookupDeposits : DepositToGoal(u, id, x)
    \/ \E u \in Users, id \in 1..next_debt_id, x \in LookupPayments :
          MakePayment(u, id, x, "prepayment")

LookupSpec == Init /\ [][LookupNext]_vars

(***************************************************************************)
(* What a logged-in user is shown of the allocation and the reminders:     *)
(* the dashboard renders the module globals, whoever asks (app.py:298-306, *)
(* and check_bill_reminders reads and writes the one bill_reminders dict). *)
(***************************************************************************)
\* Mutant: a user who did not make the last request is shown an allocation
\* of their own, still as it was at the start.
ObservedOwn(u) ==
    IF last.user \in {0, u}
    THEN [monthly_income |-> monthly_income, portfolio |-> user_portfolio,
          reminders |-> bill_reminders]
    ELSE [monthly_income |-> 0, portfolio |-> Buckets(0, 0, 0),
          reminders |-> bill_reminders]

Observed(u) ==
    [monthly_income |-> monthly_income, portfolio |-> user_portfolio,
     reminders |-> bill_reminders]

(***************************************************************************)
(* POST /investment/goal/add, app.py:960-984: the second route that        *)
(* inserts into savings_goals, next to the savings routes.                 *)
(***************************************************************************)
\* target_amount submitted to /investment/goal/add: missing, unparsable,
\* 500.00, 0 and -100.00 (the name is always submitted).
InvestmentGoalInputs == {Missing, Bad, Num(500000), Num(0), Num(-100000)}

AddInvestmentGoal(u, x) ==
    LET ok == ~Required(x)
    IN  /\ Step
        /\ IF ok
           THEN /\ goals_table' = Append(goals_table,
                        [id |-> next_goal_id, user_id |-> u, target |-> x.v,
                         progress |-> 0])
                /\ next_goal_id' = next_goal_id + 1
           ELSE UNCHANGED <<goals_table, next_goal_id>>
        /\ last' = Plain("add_investment_goal", ok)
        /\ UNCHANGED <<monthly_income, user_portfolio, expenses, expense_id_counter,
                       monthly_remainder, now, bills_table, next_bill_id,
                       bill_reminders, calc_at, applied, custom, split, debt_store,
                       in_flight, deducted>>

GoalNext ==
    \/ \E x \in IncomeInputs : SetIncome(x)
    \/ \E u \in Users, g \in GoalInputs : AddGoal(u, g)
    \/ \E u \in Users, x \in InvestmentGoalInputs : AddInvestmentGoal(u, x)
    \/ \E u \in Users, id \in 1..next_goal_id, x \in DepositInputs : DepositToGoal(u, id, x)

GoalSpec == Init /\ [][GoalNext]_vars

(***************************************************************************)
(* Claims.  In the formulas, Submitted is the number a form value parses   *)
(* to, and a step with steps' # steps is a request or a clock move.        *)
(***************************************************************************)
IsNum(x) == x.k = "num"
Total(portfolio) == portfolio.needs + portfolio.wants + portfolio.savings

\* C1: after set_income(I), whatever the state before (a custom split, posted
\* expenses), the allocation is round(0.50*I, 2), round(0.30*I, 2),
\* round(0.20*I, 2); I = 10000 gives 5000.00 / 3000.00 / 2000.00.
C1_SetIncomeAppliesDefaultSplit ==
    (last.op = "set_income" /\ IsNum(last.amt)) =>
        /\ user_portfolio = Buckets(Round2(0, 50 * last.amt.v, 100),
                                    Round2(0, 30 * last.amt.v, 100),
                                    Round2(0, 20 * last.amt.v, 100))
        /\ last.amt.v = 10000000 => user_portfolio = Buckets(5000000, 3000000, 2000000)

\* C1 witness: set_income(10000.00) after a custom split was saved and with
\* an expense on the list.
C1_Witness ==
    /\ last.op = "set_income" /\ last.amt = Num(10000000)
    /\ custom /\ expenses # <<>>
    /\ user_portfolio = Buckets(5000000, 3000000, 2000000)

\* C2: set_income clamps its input to >= 0: the stored monthly income is
\* never negative, and right after set_income no bucket is negative.
C2_IncomeClamped ==
    /\ monthly_income >= 0
    /\ last.op = "set_income" =>
            user_portfolio.needs >= 0 /\ user_portfolio.wants >= 0 /\ user_portfolio.savings >= 0

\* The exact sum of three submitted percentages differs from 100 by more
\* than 1e-6.
SumOff(t) ==
    Abs((t[1].v.w + t[2].v.w + t[3].v.w - 100) * PctScale
        + (t[1].v.f + t[2].v.f + t[3].v.f)) > Tolerance

\* C3: set_split with three percentages whose sum differs from 100 by more
\* than 1e-6 is refused and leaves monthly income and the buckets unchanged.
C3_OffSumRefused ==
    [][(/\ steps' # steps /\ last'.op = "save_split"
        /\ \A i \in 1..3 : IsNum(last'.pct[i])
        /\ SumOff(last'.pct))
       => (~last'.ok /\ UNCHANGED <<monthly_income, user_portfolio>>)]_vars

\* C4: a save_split that is carried out is a full reset: each bucket is
\* round(income * pct / 100, 2) for its new percentage, whatever was spent,
\* paid or deposited before, and monthly income is unchanged.
C4_SplitIsFullReset ==
    [][(steps' # steps /\ last'.op = "save_split" /\ last'.ok) =>
        /\ monthly_income' = monthly_income
        /\ user_portfolio' =
              Buckets(PctShare(monthly_income, Float(last'.pct[1], Pct(50, 0))),
                      PctShare(monthly_income, Float(last'.pct[2], Pct(30, 0))),
                      PctShare(monthly_income, Float(last'.pct[3], Pct(20, 0))))]_vars

\* C4 witness: 60/20/20 saved with income 10000.00 after a bill was paid
\* from needs.
C4_Witness ==
    /\ last.op = "save_split" /\ last.ok
    /\ \E i \in 1..Len(bills_table) : bills_table[i].status = "paid"
    /\ expenses # <<>>
    /\ user_portfolio = Buckets(6000000, 2000000, 2000000)

\* For the incomes of Spec (up to 10000.00): set_income after a saved split
\* leaves needs + wants + savings within 3 cents of round(I, 2).
OrdinarySumWithinThreeCents ==
    (custom /\ last.op = "set_income" /\ IsNum(last.amt)) =>
        Abs(Total(user_portfolio) - Round2(last.amt.v, 0, 1)) <= 30

\* C5: for every income I, set_split followed by set_income(I) leaves
\* needs + wants + savings within 3 cents of round(I, 2).  Checked for
\* incomes of the order of 10^15, the sum of the three buckets taken
\* exactly.
C5_SumWithinThreeCents ==
    (custom /\ last.op = "set_income") =>
        LET r == LargeRound2(last.amt.v)
            P == user_portfolio
        IN  /\ P.needs.hi + P.wants.hi + P.savings.hi = r.hi
            /\ Abs(P.needs.lo + P.wants.lo + P.savings.lo - r.lo) <= 30000

\* C6: add_expense with amount <= 0 is refused and changes nothing: no
\* record appended, the id counter not advanced, no bucket changed.
C6_NonPositiveExpenseRefused ==
    [][(steps' # steps /\ last'.op = "add_expense" /\ IsNum(last'.amt) /\ last'.amt.v <= 0)
       => (~last'.ok /\ UNCHANGED <<expenses, expense_id_counter, user_portfolio>>)]_vars

\* C6 witness: an expense of -5.00 refused while the buckets hold money.
C6_Witness ==
    /\ last.op = "add_expense" /\ last.amt = Num(-5000) /\ ~last.ok
    /\ user_portfolio.needs > 0

\* The bucket the claims name for an expense type.
ClaimedBucket(typ) == IF typ = "need" THEN "needs" ELSE "wants"

\* C7 as stated: add_expense with amount > 0 subtracts the amount from
\* exactly one bucket (needs for 'need', wants otherwise), also when the
\* bucket is smaller than the amount, and leaves the other buckets and the
\* monthly income unchanged.
C7_ExpenseSubtractsAmount ==
    [][(steps' # steps /\ last'.op = "add_expense" /\ IsNum(last'.amt) /\ last'.amt.v > 0) =>
        /\ monthly_income' = monthly_income
        /\ user_portfolio' =
              [user_portfolio EXCEPT ![ClaimedBucket(last'.typ)] = @ - last'.amt.v]]_vars

\* C7 amended: the charged bucket becomes round(bucket - amount, 2), which
\* is bucket - amount when both are whole cents; never blocked; the other
\* buckets and the monthly income unchanged.
C7_ExpenseSubtractsRounded ==
    [][(steps' # steps /\ last'.op = "add_expense" /\ IsNum(last'.amt) /\ last'.amt.v > 0) =>
        LET b == ClaimedBucket(last'.typ)
        IN  /\ last'.ok
            /\ monthly_income' = monthly_income
            /\ user_portfolio' =
                  [user_portfolio EXCEPT ![b] = Round2(@ - last'.amt.v, 0, 1)]
            /\ (user_portfolio[b] % 10 = 0 /\ last'.amt.v % 10 = 0) =>
                    user_portfolio'[b] = user_portfolio[b] - last'.amt.v]_vars

\* C7 witness: an expense of type need larger than the needs bucket was
\* posted and the bucket went negative.
C7_Witness ==
    /\ last.op = "add_expense" /\ last.ok /\ last.typ = "need"
    /\ last.pre.needs >= 0 /\ last.pre.needs < last.amt.v
    /\ user_portfolio.needs < 0

\* C8: posting an expense and then deleting that same expense, nothing in
\* between, restores the three buckets to their exact values before the
\* post and removes the record.
C8_PostThenDeleteRestores ==
    [][(/\ last.op = "add_expense" /\ last.ok
        /\ steps' # steps /\ last'.op = "delete_expense" /\ last'.id = last.id)
       => /\ user_portfolio' = last.pre
          /\ \A i \in 1..Len(expenses') : expenses'[i].id # last.id]_vars

\* C9: a second calculate_monthly_remainder in the same month as the
\* previous call changes neither the buckets, nor the stored remainders,
\* nor last_month.
C9_RolloverIdempotentInMonth ==
    [][(steps' # steps /\ last'.op = "dashboard" /\ SameCalendarMonth(calc_at, now))
       => UNCHANGED <<user_portfolio, monthly_remainder>>]_vars

\* C9 witness: a dashboard visit in the month of the previous visit, with
\* income set and money in the buckets.
C9_Witness ==
    /\ last.op = "dashboard" /\ last.again
    /\ monthly_income > 0 /\ user_portfolio.needs > 0

\* C10: within one calendar month the remainder is recomputed and added to
\* the buckets at most once, whatever the requests.
C10_RolloverOncePerMonth == applied <= 1

\* income * pct + remainder for the percentage p in effect, to the cent.
ClaimedReset(income, p, rem) ==
    LET A == income * p.w
    IN  Round2(rem + (A \div 100), (A % 100) * PctScale + income * p.f, 100 * PctScale)

\* C11: on a month transition with income > 0 each bucket's remainder is
\* max(0, balance) and each bucket is reset to income * pct + remainder,
\* pct being the bucket's percentage in the split last applied by
\* save_split or set_income.
C11_RolloverKeepsSplit ==
    [][(/\ steps' # steps /\ last'.op = "dashboard"
        /\ RolloverCase = "new_month" /\ monthly_income > 0)
       => /\ monthly_remainder'.needs = Max(0, user_portfolio.needs)
          /\ monthly_remainder'.wants = Max(0, user_portfolio.wants)
          /\ monthly_remainder'.savings = Max(0, user_portfolio.savings)
          /\ user_portfolio' =
                Buckets(ClaimedReset(monthly_income, split[1], Max(0, user_portfolio.needs)),
                        ClaimedReset(monthly_income, split[2], Max(0, user_portfolio.wants)),
                        ClaimedReset(monthly_income, split[3], Max(0, user_portfolio.savings)))]_vars

\* With the default split in effect the rollover is as C11 says.
RolloverWithDefaultSplit ==
    [][(/\ steps' # steps /\ last'.op = "dashboard"
        /\ RolloverCase = "new_month" /\ monthly_income > 0
        /\ split = DefaultPercentages)
       => user_portfolio' =
                Buckets(ClaimedReset(monthly_income, split[1], Max(0, user_portfolio.needs)),
                        ClaimedReset(monthly_income, split[2], Max(0, user_portfolio.wants)),
                        ClaimedReset(monthly_income, split[3], Max(0, user_portfolio.savings)))]_vars

\* The row of the bill the last pay_bill request was about.
TargetBill(table, req) == table[FindRow(table, req.id, req.user)]

\* C12: pay_bill on an unpaid bill whose amount exceeds the needs bucket is
\* blocked: the bill stays unpaid, needs is unchanged and no expense is
\* recorded.
C12_BillOverNeedsBlocked ==
    [][(/\ steps' # steps /\ last'.op = "pay_bill" /\ last'.id # 0
        /\ TargetBill(bills_table, last').status = "unpaid"
        /\ TargetBill(bills_table, last').amount > user_portfolio.needs)
       => /\ ~last'.ok
          /\ UNCHANGED <<bills_table, user_portfolio, expenses, expense_id_counter>>]_vars

\* C12 witness: a bill of 8000.00 refused while needs holds 5000.00; the
\* bill is still unpaid.
C12_Witness ==
    /\ last.op = "pay_bill" /\ last.id # 0 /\ ~last.ok
    /\ TargetBill(bills_table, last).status = "unpaid"
    /\ TargetBill(bills_table, last).amount = 8000000
    /\ user_portfolio.needs = 5000000
    /\ expenses = <<>>

\* C13: the status flip and the deduction of pay_bill are one step to every
\* other request: in no state is a bill marked paid while needs has not
\* been reduced by its amount, or needs reduced while the bill is unpaid.
C13_PayBillAtomic ==
    \A i \in 1..Len(bills_table) :
        bills_table[i].status = "paid" <=> bills_table[i].id \in deducted

BillIds(table) == {table[i].id : i \in 1..Len(table)}

\* C14: bill status is one-way: every step leaves a paid bill paid for as
\* long as the bill exists, and a bill that a step creates is unpaid.
C14_BillStatusOneWay ==
    [][\A j \in 1..Len(bills_table') :
          LET new == bills_table'[j]
          IN  /\ new.id \notin BillIds(bills_table) => new.status = "unpaid"
              /\ \A i \in 1..Len(bills_table) :
                    (bills_table[i].id = new.id /\ bills_table[i].status = "paid")
                        => new.status = "paid"]_vars

\* A bill was paid, and requests on the bills went on after the payment: a
\* second payment of it was refused as already paid, or a later bill was added.
C14_Witness ==
    \E i \in 1..Len(bills_table) :
        /\ bills_table[i].status = "paid"
        /\ \/ last.op = "pay_bill" /\ ~last.ok /\ last.id = bills_table[i].id
           \/ \E j \in 1..Len(bills_table) :
                 bills_table[j].id > bills_table[i].id /\ bills_table[j].status = "unpaid"

\* The goal a deposit_to_goal request is about, as an index of goals_table.
TargetGoal(req) == FindRow(goals_table, req.id, req.user)

\* What C15 says a deposit of amount to goal i does to the goals and buckets.
ClaimedDeposit(i, amount) ==
    IF amount > user_portfolio.savings
    THEN UNCHANGED <<goals_table, user_portfolio>>
    ELSE /\ goals_table' = [goals_table EXCEPT ![i].progress = @ + amount]
         /\ user_portfolio' = [user_portfolio EXCEPT !.savings = @ - amount]

\* C15: deposit_to_goal(goal, amount) changes nothing when amount > savings;
\* otherwise it moves exactly amount from savings to the goal's progress:
\* savings + progress is the same before and after, needs and wants unchanged.
C15_DepositMovesAmount ==
    [][(steps' # steps /\ last'.op = "deposit_to_goal" /\ last'.id # 0 /\ IsNum(last'.amt))
       => ClaimedDeposit(TargetGoal(last'), last'.amt.v)]_vars

\* The same for deposits of whole cents, which the rounding leaves alone.
DepositOfWholeCentsMovesAmount ==
    [][(/\ steps' # steps /\ last'.op = "deposit_to_goal" /\ last'.id # 0
        /\ IsNum(last'.amt) /\ last'.amt.v % 10 = 0)
       => ClaimedDeposit(TargetGoal(last'), last'.amt.v)]_vars

\* C16: every step leaves every savings goal with progress >= 0, and a
\* deposit_to_goal request, whatever amount it submits, neither lowers the
\* progress of a goal nor raises the savings bucket.
C16_ProgressNeverLowered ==
    [][/\ \A j \in 1..Len(goals_table') : goals_table'[j].progress >= 0
       /\ (steps' # steps /\ last'.op = "deposit_to_goal") =>
             /\ user_portfolio'.savings <= user_portfolio.savings
             /\ \A i \in 1..Len(goals_table) :
                   goals_table'[i].progress >= goals_table[i].progress]_vars

\* The interest of every debt is a whole number of units: the integer
\* division of Interest loses nothing in the behaviours of DebtSpec.
InterestExact ==
    \A i \in 1..Len(debts_table) :
        (debts_table[i].outstanding_amount * debts_table[i].interest_rate) % 1200 = 0

\* C17: a debt is created with outstanding_amount = principal_amount, and no
\* step, whatever payment_amount and payment_type it submits, leaves the
\* outstanding_amount of a debt larger than it was.
C17_OutstandingNeverGrows ==
    [][/\ \A j \in 1..Len(debts_table') :
             j > Len(debts_table) =>
                debts_table'[j].outstanding_amount = debts_table'[j].principal_amount
       /\ \A i \in 1..Len(debts_table) :
             debts_table'[i].outstanding_amount <= debts_table[i].outstanding_amount]_vars

\* The debt a make_payment request is about, as an index of debts_table.
TargetDebt(req) == FindRow(debts_table, req.id, req.user)

\* C18: make_payment on a debt whose status is closed inserts no payment
\* record and changes no field of the debt.
C18_ClosedDebtTakesNoPayment ==
    [][(/\ steps' # steps /\ last'.op = "make_payment" /\ last'.id # 0
        /\ debts_table[TargetDebt(last')].status = "closed")
       => UNCHANGED <<debts_table, debt_payments>>]_vars

\* A step is a make_payment request that was carried out on debt i.
PaidInStep(i) ==
    /\ steps' # steps /\ last'.op = "make_payment" /\ last'.ok
    /\ TargetDebt(last') = i

\* C19: a payment on an active debt closes it exactly when the new
\* outstanding amount is <= 0 and leaves it active otherwise; no step moves
\* a debt out of closed, and only a payment changes the status of a debt.
C19_DebtStateMachine ==
    [][\A i \in 1..Len(debts_table) :
          LET old == debts_table[i]
              new == debts_table'[i]
          IN  /\ old.status = "closed" => new.status = "closed"
              /\ (old.status = "active" /\ PaidInStep(i)) =>
                    /\ new.outstanding_amount <= 0 => new.status = "closed"
                    /\ new.outstanding_amount > 0 => new.status = "active"
              /\ ~PaidInStep(i) => new.status = old.status]_vars

\* A debt was paid down in part and stayed active, was then paid off and
\* closed, and a further payment on it left it closed.
C19_Witness ==
    \E i \in 1..Len(debts_table) :
        /\ debts_table[i].status = "closed"
        /\ \E k, m, n \in 1..Len(debt_payments) :
              /\ k < m /\ m < n
              /\ \A j \in {k, m, n} : debt_payments[j].debt_id = debts_table[i].id
              /\ debt_payments[k].remaining_balance > 0
              /\ debt_payments[m].remaining_balance = 0

\* The split C20 states for a payment of amount and type typ on a debt.
ClaimedSplit(debt, amount, typ, r) ==
    LET interest == (debt.outstanding_amount * debt.interest_rate) \div 1200
    IN  /\ IF typ = "emi"
           THEN IF amount - interest < 0
                THEN r.principal_paid = 0 /\ r.interest_paid = amount
                ELSE r.principal_paid = amount - interest /\ r.interest_paid = interest
           ELSE r.principal_paid = amount /\ r.interest_paid = 0
        /\ r.principal_paid + r.interest_paid = amount

C21_FullPayoffReducesWholeEmi ==
    (prepayment.returned # <<>> /\ prepayment.prepayment_amount = prepayment.principal) =>
        LET original_emi == CalculateEmi(prepayment.principal, prepayment.rate,
                                         prepayment.tenure_months)
        IN  /\ prepayment.returned[3] = 0
            /\ prepayment.returned[2] * original_emi.d = original_emi.n

\* An unpaid bill of user u is overdue or due within seven days of today.
ClaimedBillDue(u, today) ==
    \E i \in 1..Len(bills_table) :
        /\ bills_table[i].user_id = u /\ bills_table[i].status = "unpaid"
        /\ \/ DateLess(bills_table[i].due_date, today)
           \/ /\ DateLeq(today, bills_table[i].due_date)
              /\ DateLeq(bills_table[i].due_date, AddDays(today, 7))

EvaluatorReads(reminders) == reminders.daily_enabled # "off"

\* C29: every toggle_daily_reminders request changes the daily_enabled
\* value the evaluator reads; the first one, on the initial dict, turns it
\* from enabled to disabled.
C29_ToggleFlipsEffectiveValue ==
    [][(steps' # steps /\ last'.op = "toggle_daily_reminders") =>
          EvaluatorReads(bill_reminders') # EvaluatorReads(bill_reminders)]_vars

\* The table has no row with this id that belongs to user u.
NoRow(table, id, u) == ~\E i \in 1..Len(table) : table[i].id = id /\ table[i].user_id = u

\* No bill, goal, debt or payment row and no bucket changes in the step.
LedgerUnchanged ==
    UNCHANGED <<bills_table, goals_table, debts_table, debt_payments, user_portfolio,
                expenses>>

\* C23 as stated: pay_bill, delete_bill, deposit_to_goal and make_payment,
\* asked for an id that does not exist or belongs to another user, report
\* not-found and change nothing.
C23_AbsentRowReportsNotFound ==
    [][\A u \in Users :
          /\ \A id \in 1..next_bill_id :
                /\ (NoRow(bills_table, id, u) /\ PayBill(u, id)) =>
                      (last'.flash = "Bill not found" /\ LedgerUnchanged)
                /\ (NoRow(bills_table, id, u) /\ DeleteBill(u, id)) =>
                      (last'.flash = "Bill not found" /\ LedgerUnchanged)
          /\ \A id \in 1..next_goal_id, x \in LookupDeposits :
                (NoRow(goals_table, id, u) /\ DepositToGoal(u, id, x)) =>
                      (last'.flash = "Goal not found" /\ LedgerUnchanged)
          /\ \A id \in 1..next_debt_id, x \in LookupPayments :
                (NoRow(debts_table, id, u) /\ MakePayment(u, id, x, "prepayment")) =>
                      (last'.flash = "Debt not found" /\ LedgerUnchanged)]_vars

\* C23 amended: the four routes change nothing when the id does not exist
\* or belongs to another user; they report not-found unless the submitted
\* amount is refused before the row is looked up (deposit_to_goal: an amount
\* above savings; make_payment: an unparsable payment_amount).
C23_AbsentRowChangesNothing ==
    [][\A u \in Users :
          /\ \A id \in 1..next_bill_id :
                /\ (NoRow(bills_table, id, u) /\ PayBill(u, id)) =>
                      (last'.flash = "Bill not found" /\ LedgerUnchanged)
                /\ (NoRow(bills_table, id, u) /\ DeleteBill(u, id)) =>
                      (last'.flash = "Bill not found" /\ LedgerUnchanged)
          /\ \A id \in 1..next_goal_id, x \in LookupDeposits :
                (NoRow(goals_table, id, u) /\ DepositToGoal(u, id, x)) =>
                      /\ LedgerUnchanged
                      /\ last'.flash = IF x.v > user_portfolio.savings
                                       THEN "Amount exceeds available savings"
                                       ELSE "Goal not found"
          /\ \A id \in 1..next_debt_id, x \in LookupPayments :
                (NoRow(debts_table, id, u) /\ MakePayment(u, id, x, "prepayment")) =>
                      /\ LedgerUnchanged
                      /\ last'.flash = IF x = Bad THEN "Error making payment"
                                       ELSE "Debt not found"]_vars

\* The buckets are funded and user 1 has an unpaid bill; the last request
\* was a pay_bill or delete_bill for a bill id that is not the asking
\* user's, answered with not-found.
C23_Witness ==
    /\ last.op \in {"pay_bill", "delete_bill"} /\ last.flash = "Bill not found"
    /\ user_portfolio.needs = 5000000
    /\ \E i \in 1..Len(bills_table) :
          bills_table[i].user_id = Owner /\ bills_table[i].status = "unpaid"

C25_GoalTargetPositive ==
    \A i \in 1..Len(goals_table) : goals_table[i].target > 0

\* The same for the rows of add_goal alone.
AddGoalTargetPositive ==
    [][(steps' # steps /\ last'.op = "add_goal") =>
          \A i \in 1..Len(goals_table') :
              i > Len(goals_table) => goals_table'[i].target > 0]_vars

ExpenseIds(list) == {list[i].id : i \in 1..Len(list)}

\* C26: after every step the expenses have pairwise distinct ids, each
\* smaller than the id counter; the counter never goes down, and an expense
\* the step created (by add_expense or pay_bill) has an id no smaller than
\* the counter before it, so larger than every id given out earlier, that
\* of a deleted expense included.
C26_ExpenseIdsUniqueAndGrowing ==
    [][/\ \A i, j \in 1..Len(expenses') : i < j => expenses'[i].id < expenses'[j].id
       /\ \A i \in 1..Len(expenses') : expenses'[i].id < expense_id_counter'
       /\ expense_id_counter' >= expense_id_counter
       /\ \A i \in 1..Len(expenses') :
             expenses'[i].id \notin ExpenseIds(expenses) =>
                expenses'[i].id >= expense_id_counter]_vars

\* An expense was posted, deleted, and another posted after it: the list
\* holds the one expense with id 2.
C26_Witness ==
    /\ last.op = "add_expense" /\ last.ok
    /\ Len(expenses) = 1 /\ expenses[1].id = 2
    /\ expense_id_counter = 3

\* C27: every paid bill has its payment still in the expense list: an
\* expense of type need with the amount of the bill.
C27_PaidBillHasItsExpense ==
    \A i \in 1..Len(bills_table) :
        bills_table[i].status = "paid" =>
            \E k \in 1..Len(expenses) :
                /\ expenses[k].type = "need"
                /\ expenses[k].amount = -bills_table[i].amount

\* C28: a bill is charged at most once.  A pay_bill request on a paid bill
\* is refused and changes nothing; a pay_bill request that takes money from
\* needs or records an expense is about a bill not charged before, takes
\* its amount once and records one expense.
C28_BillChargedOnce ==
    [][(steps' # steps /\ last'.op = "pay_bill" /\ last'.id # 0) =>
          LET bill == TargetBill(bills_table, last')
          IN  /\ bill.status = "paid" =>
                    /\ ~last'.ok
                    /\ UNCHANGED <<bills_table, user_portfolio, expenses, expense_id_counter>>
              /\ (user_portfolio' # user_portfolio \/ expenses' # expenses) =>
                    /\ bill.id \notin deducted
                    /\ Len(expenses') = Len(expenses) + 1
                    /\ user_portfolio' = [user_portfolio EXCEPT
                                             !.needs = Round2(@ - bill.amount, 0, 1)]]_vars

\* A bill of 300.00 was paid out of needs 5000.00, and a second pay_bill on
\* it was refused as already paid: one expense, needs 4700.00.
C28_Witness ==
    /\ last.op = "pay_bill" /\ ~last.ok /\ last.flash = "Bill is already paid"
    /\ TargetBill(bills_table, last).amount = 300000
    /\ Len(expenses) = 1
    /\ user_portfolio.needs = 4700000

\* C30: a dashboard visit in a calendar month (year and month) other than
\* the one of the previous calculate_monthly_remainder applies the rollover:
\* with income set, the buckets become the new allocation plus what was left.
C30_RolloverInEveryNewCalendarMonth ==
    [][(/\ steps' # steps /\ last'.op = "dashboard"
        /\ calc_at # NoDate /\ ~SameCalendarMonth(calc_at, now)
        /\ monthly_income > 0)
       => user_portfolio' = Reallocate(monthly_income, user_portfolio,
                                       Remainders(user_portfolio))]_vars

=============================================================================
